---- MODULE Spec2Model ----
(***************************************************************************)
(* Rotation triggers of the rolling-file appender:                         *)
(*   ClientTrigger (trigger/client.rs) - an atomic boolean latch that a    *)
(*     client arms and the next append consumes;                           *)
(*   DailyTrigger  (trigger/daily.rs)  - a schedule cell holding the next  *)
(*     rotation instant, advanced in local civil time.                     *)
(* SpecClient is the state machine of one ClientTrigger shared by several  *)
(* threads; SpecDaily the one of one DailyTrigger shared by several        *)
(* threads, with the system clock and the local time zone as environment.  *)
(***************************************************************************)
EXTENDS Integers, Sequences, FiniteSets, TLC

(***************************************************************************)
(* Bounds of the model.                                                    *)
(***************************************************************************)
\* threads that share one trigger instance
NumThreads == 2
\* calls (arm or evaluate) made on the ClientTrigger in one behaviour
MaxCalls == 5

Threads == 1..NumThreads

VARIABLES
    \* ---- ClientTrigger ----
    latch,      \* ClientTrigger.latch : AtomicBool
    cpc,        \* per thread: where it is inside a ClientTrigger call
    cres,       \* per thread: the value its last trigger() returned
    cmark,      \* per thread: hist position of the latest arm() that had
                \*   returned when the thread's evaluate() began (history)
    armDone,    \* hist position of the latest arm() that has returned (history)
    hist        \* the swaps on latch in the order they took effect (history)

VARIABLES
    \* ---- DailyTrigger ----
    dstate,             \* "none" before DailyTrigger::new, then "built" or "panicked"
    next_seconds,       \* DailyTrigger.next_seconds : AtomicI64
    time_of_day,        \* DailyTrigger.time_of_day : NaiveTime, seconds since midnight
    skip_days,          \* DailyTrigger.skip_days
    start_day_of_week,  \* DailyTrigger.start_day_of_week
    clock,              \* the system clock, epoch seconds (environment)
    dpc,                \* per thread: where it is inside DailyTrigger::trigger
    now_l,              \* per thread: trigger()'s local `now`
    next_l,             \* per thread: trigger()'s local `next` as loaded
    new_l,              \* per thread: trigger()'s local `next` as stored
    fired               \* the thresholds that a trigger() which has returned
                        \*   Ok(true) had loaded (history)

VARIABLES
    \* ---- the configuration layer and a single sequential caller ----
    cfg_time_of_day,        \* DailyTriggerConfig.time_of_day : u32
    cfg_skip_days,          \* DailyTriggerConfig.skip_days : u32, as two 16-bit halves
    cfg_start_day_of_week,  \* DailyTriggerConfig.start_day_of_week : u32
    ret,                    \* what the caller's last DailyTrigger::trigger call did:
                            \*   "none", "false", "true" or "panic"
    file                    \* the LogFile the caller passed to its last trigger call

cvars == <<latch, cpc, cres, cmark, armDone, hist>>
svars == <<cfg_time_of_day, cfg_skip_days, cfg_start_day_of_week, ret, file>>
config == <<time_of_day, skip_days, start_day_of_week>>
dvars == <<dstate, next_seconds, time_of_day, skip_days, start_day_of_week, clock,
           dpc, now_l, next_l, new_l, fired>>
vars == <<latch, cpc, cres, cmark, armDone, hist,
          dstate, next_seconds, time_of_day, skip_days, start_day_of_week, clock,
          dpc, now_l, next_l, new_l, fired,
          cfg_time_of_day, cfg_skip_days, cfg_start_day_of_week, ret, file>>

(***************************************************************************)
(* ClientTrigger                                                           *)
(***************************************************************************)

\* (mutant) a load in place of the swap: the cell keeps its value.
AtomicSwapNoStore(cell, v) == [prev |-> cell, cell |-> cell]

\* AtomicBool::swap(v, AcqRel): one indivisible read-modify-write; it stores v
\* and yields the value the cell held.
AtomicSwap(cell, v) == [prev |-> cell, cell |-> v]

\* ClientTrigger::new(): the latch starts false; no call is in progress.
ClientInit ==
    /\ latch = FALSE
    /\ cpc = [t \in Threads |-> "idle"]
    /\ cres = [t \in Threads |-> FALSE]
    /\ cmark = [t \in Threads |-> 0]
    /\ armDone = 0
    /\ hist = << >>

CallsStarted ==
    Len(hist) + Cardinality({t \in Threads : cpc[t] \in {"arm", "eval"}})

\* A thread enters rotate_on_next_append().
ArmCall(t) ==
    /\ cpc[t] = "idle"
    /\ CallsStarted < MaxCalls
    /\ cpc' = [cpc EXCEPT ![t] = "arm"]
    /\ UNCHANGED <<latch, cres, cmark, armDone, hist>>
    /\ UNCHANGED dvars
    /\ UNCHANGED svars

\* (mutant) arming toggles the latch instead of setting it.
ArmToggle(t) ==
    /\ cpc[t] = "arm"
    /\ latch' = ~latch
    /\ hist' = Append(hist, [op |-> "arm", res |-> latch, th |-> t, mark |-> 0])
    /\ cpc' = [cpc EXCEPT ![t] = "armed"]
    /\ UNCHANGED <<cres, cmark, armDone>>
    /\ UNCHANGED dvars
    /\ UNCHANGED svars

\* rotate_on_next_append(): self.latch.swap(true, AcqRel); the old value is dropped.
ArmSwap(t) ==
    /\ cpc[t] = "arm"
    /\ LET s == AtomicSwap(latch, TRUE) IN
        /\ latch' = s.cell
        /\ hist' = Append(hist, [op |-> "arm", res |-> s.prev, th |-> t, mark |-> 0])
    /\ cpc' = [cpc EXCEPT ![t] = "armed"]
    /\ UNCHANGED <<cres, cmark, armDone>>
    /\ UNCHANGED dvars
    /\ UNCHANGED svars

\* Position in h of the latest swap made by thread t (0 if none).
LastPosOf(h, t) ==
    LET S == {i \in 1..Len(h) : h[i].th = t} IN
    IF S = {} THEN 0 ELSE CHOOSE i \in S : \A j \in S : j <= i

\* rotate_on_next_append() returns to its caller.
ArmReturn(t) ==
    /\ cpc[t] = "armed"
    /\ cpc' = [cpc EXCEPT ![t] = "idle"]
    /\ armDone' = IF LastPosOf(hist, t) > armDone THEN LastPosOf(hist, t) ELSE armDone
    /\ UNCHANGED <<latch, cres, cmark, hist>>
    /\ UNCHANGED dvars
    /\ UNCHANGED svars

\* A thread enters ClientTrigger::trigger(file).
EvalCall(t) ==
    /\ cpc[t] = "idle"
    /\ CallsStarted < MaxCalls
    /\ cpc' = [cpc EXCEPT ![t] = "eval"]
    /\ cmark' = [cmark EXCEPT ![t] = armDone]
    /\ UNCHANGED <<latch, cres, armDone, hist>>
    /\ UNCHANGED dvars
    /\ UNCHANGED svars

\* (mutant) trigger() loads the latch and leaves it set.
EvalLoad(t) ==
    /\ cpc[t] = "eval"
    /\ latch' = latch
    /\ cres' = [cres EXCEPT ![t] = latch]
    /\ hist' = Append(hist, [op |-> "eval", res |-> latch, th |-> t, mark |-> cmark[t]])
    /\ cpc' = [cpc EXCEPT ![t] = "evald"]
    /\ UNCHANGED <<cmark, armDone>>
    /\ UNCHANGED dvars
    /\ UNCHANGED svars

\* (mutant) trigger() clears the latch but yields the value it stored.
EvalSwapNew(t) ==
    /\ cpc[t] = "eval"
    /\ LET s == AtomicSwap(latch, FALSE) IN
        /\ latch' = s.cell
        /\ cres' = [cres EXCEPT ![t] = s.cell]
        /\ hist' = Append(hist, [op |-> "eval", res |-> s.cell, th |-> t, mark |-> cmark[t]])
    /\ cpc' = [cpc EXCEPT ![t] = "evald"]
    /\ UNCHANGED <<cmark, armDone>>
    /\ UNCHANGED dvars
    /\ UNCHANGED svars

\* trigger(): let latch = self.latch.swap(false, AcqRel);
EvalSwap(t) ==
    /\ cpc[t] = "eval"
    /\ LET s == AtomicSwap(latch, FALSE) IN
        /\ latch' = s.cell
        /\ cres' = [cres EXCEPT ![t] = s.prev]
        /\ hist' = Append(hist, [op |-> "eval", res |-> s.prev, th |-> t, mark |-> cmark[t]])
    /\ cpc' = [cpc EXCEPT ![t] = "evald"]
    /\ UNCHANGED <<cmark, armDone>>
    /\ UNCHANGED dvars
    /\ UNCHANGED svars

\* trigger(): Ok(latch)
EvalReturn(t) ==
    /\ cpc[t] = "evald"
    /\ cpc' = [cpc EXCEPT ![t] = "idle"]
    /\ UNCHANGED <<latch, cres, cmark, armDone, hist>>
    /\ UNCHANGED dvars
    /\ UNCHANGED svars

ClientNext ==
    \E t \in Threads :
        \/ ArmCall(t)
        \/ ArmSwap(t)
        \/ ArmReturn(t)
        \/ EvalCall(t)
        \/ EvalSwap(t)
        \/ EvalReturn(t)

(***************************************************************************)
(* Local civil time (chrono::Local), the environment of DailyTrigger.      *)
(* Instants are epoch seconds; a civil (naive local) date-time is the      *)
(* number of seconds since 1970-01-01T00:00:00 on the local wall clock.    *)
(* The zone is a US zone in 2024: UTC-5, and UTC-4 from 2024-03-10 07:00Z  *)
(* (02:00 local jumps to 03:00) to 2024-11-03 06:00Z (02:00 local falls    *)
(* back to 01:00).                                                         *)
(***************************************************************************)
SecsPerHour == 60 * 60
SecsPerDay == 24 * SecsPerHour
StdOffset == 0 - 5 * SecsPerHour
DstOffset == 0 - 4 * SecsPerHour
\* day numbers: 2024-03-10 is day 19792 and 2024-11-03 day 20030 after 1970-01-01
DstStartUtc == 19792 * SecsPerDay + 7 * SecsPerHour
DstEndUtc == 20030 * SecsPerDay + 6 * SecsPerHour

UtcOffset(u) == IF DstStartUtc <= u /\ u < DstEndUtc THEN DstOffset ELSE StdOffset

\* instant -> civil date-time (Local.timestamp_opt / DateTime::naive_local)
ToLocal(u) == u + UtcOffset(u)

\* civil date-time -> the instants that show it (TimeZone::from_local_datetime):
\* none in the spring-forward gap, two in the fall-back overlap, else one.
FromLocal(l) == {u \in {l - StdOffset, l - DstOffset} : ToLocal(u) = l}

\* LocalResult::single(): Some only for exactly one instant
Single(c) == IF Cardinality(c) = 1 THEN c ELSE {}

DateOf(l) == l \div SecsPerDay
TimeOf(l) == l % SecsPerDay
\* Datelike::weekday().num_days_from_sunday(); 1970-01-01 was a Thursday
NumDaysFromSunday(l) == (DateOf(l) + 4) % 7

\* (mutant) the period is added as a fixed number of seconds to the instant.
AddFixedSeconds(u, days) == {u + days * SecsPerDay}

\* DateTime<Local>::checked_add_days(Days::new(days)), days >= 1: the days are
\* added to the civil date-time, which must then denote exactly one instant.
\* An Option: the empty set is None.
CheckedAddDays(u, days) == Single(FromLocal(ToLocal(u) + days * SecsPerDay))

\* DateTime<Local>::with_hour / with_minute / with_second
WithHour(u, h) ==
    LET l == ToLocal(u) IN
    Single(FromLocal(DateOf(l) * SecsPerDay + h * SecsPerHour + (TimeOf(l) % SecsPerHour)))
WithMinute(u, m) ==
    LET l == ToLocal(u) IN
    Single(FromLocal(l - (TimeOf(l) % SecsPerHour) + m * 60 + (TimeOf(l) % 60)))
WithSecond(u, sec) ==
    LET l == ToLocal(u) IN
    Single(FromLocal(l - (TimeOf(l) % 60) + sec))

(***************************************************************************)
(* DailyTrigger                                                            *)
(***************************************************************************)
\* days of clock time that a behaviour covers, from the start of the process
MaxDays == 2

\* configurations handed to DailyTrigger::new
TimeOfDayInputs == {0, 130, 230}
SkipDaysInputs == {0, 1}
StartDayInputs == {0, 3}
\* instants at which the process starts: Fri 2024-03-08 00:30 and
\* Fri 2024-11-01 00:30 local, two days before each transition
StartInstants ==
    {19790 * SecsPerDay + 5 * SecsPerHour + 30 * 60,
     20028 * SecsPerDay + 4 * SecsPerHour + 30 * 60}
\* clock advance between two steps
TickSteps == {SecsPerDay}

\* (mutant) the trigger point is today on every cycle day, whatever the time
FirstTriggerPointAnyTime(now, tod, skip, sdow) ==
    LET now_day_of_week == NumDaysFromSunday(ToLocal(now))
        days_into_cycle ==
            IF now_day_of_week >= sdow
            THEN (now_day_of_week - sdow) % (skip + 1)
            ELSE (now_day_of_week + 7 - sdow) % (skip + 1)
        days_left_in_cycle == (skip + 1) - days_into_cycle
        trigger_point ==
            IF days_into_cycle = 0
            THEN {now}
            ELSE CheckedAddDays(now, days_left_in_cycle)
        hour == tod \div SecsPerHour
        minute == (tod % SecsPerHour) \div 60
        with_hour == UNION {WithHour(u, hour) : u \in trigger_point}
        with_minute == UNION {WithMinute(u, minute) : u \in with_hour}
    IN  UNION {WithSecond(u, 0) : u \in with_minute}

\* (mutant) the trigger point is never today
FirstTriggerPointNeverToday(now, tod, skip, sdow) ==
    LET now_day_of_week == NumDaysFromSunday(ToLocal(now))
        days_into_cycle ==
            IF now_day_of_week >= sdow
            THEN (now_day_of_week - sdow) % (skip + 1)
            ELSE (now_day_of_week + 7 - sdow) % (skip + 1)
        days_left_in_cycle == (skip + 1) - days_into_cycle
        trigger_point == CheckedAddDays(now, days_left_in_cycle)
        hour == tod \div SecsPerHour
        minute == (tod % SecsPerHour) \div 60
        with_hour == UNION {WithHour(u, hour) : u \in trigger_point}
        with_minute == UNION {WithMinute(u, minute) : u \in with_hour}
    IN  UNION {WithSecond(u, 0) : u \in with_minute}

\* DailyTrigger::first_trigger_point(&self), with Local::now() = now.
\* An Option: the empty set is a panic of one of the expect() calls.
FirstTriggerPoint(now, tod, skip, sdow) ==
    LET now_time == TimeOf(ToLocal(now))
        now_day_of_week == NumDaysFromSunday(ToLocal(now))
        days_into_cycle ==
            IF now_day_of_week >= sdow
            THEN (now_day_of_week - sdow) % (skip + 1)
            ELSE (now_day_of_week + 7 - sdow) % (skip + 1)
        days_left_in_cycle == (skip + 1) - days_into_cycle
        trigger_point ==
            IF now_time < tod /\ days_into_cycle = 0
            THEN {now}
            ELSE CheckedAddDays(now, days_left_in_cycle)
        hour == tod \div SecsPerHour
        minute == (tod % SecsPerHour) \div 60
        with_hour == UNION {WithHour(u, hour) : u \in trigger_point}
        with_minute == UNION {WithMinute(u, minute) : u \in with_hour}
    IN  UNION {WithSecond(u, 0) : u \in with_minute}

\* (mutant) minutes 60..99 do not bump the hour
NormHoursNoBump(t) == (t \div 100) % 24

\* DailyTrigger::new: the hour and minute that time_of_day (HHMM) denotes
NormHours(t) == ((t \div 100) % 24) + ((t % 100) \div 60)
NormMinutes(t) == (t % 100) % 60
\* NaiveTime::from_hms_opt(hours, minutes, 0), as seconds since midnight
FromHmsOpt(h, m) == IF h < 24 /\ m < 60 THEN {h * SecsPerHour + m * 60} ELSE {}

\* The state before DailyTrigger::new has run: Default::default().
DailyInit ==
    /\ dstate = "none"
    /\ next_seconds = 0
    /\ time_of_day = 0
    /\ skip_days = 0
    /\ start_day_of_week = 0
    /\ clock \in StartInstants
    /\ dpc = [t \in Threads |-> "idle"]
    /\ now_l = [t \in Threads |-> 0]
    /\ next_l = [t \in Threads |-> 0]
    /\ new_l = [t \in Threads |-> 0]
    /\ fired = {}

\* DailyTrigger::new(time_of_day, skip_days, start_day_of_week)
New(tod_in, skip, sdow_in) ==
    /\ dstate = "none"
    /\ LET tod == FromHmsOpt(NormHours(tod_in), NormMinutes(tod_in))
           sdow == sdow_in % 7
           first == UNION {FirstTriggerPoint(clock, x, skip, sdow) : x \in tod}
       IN  IF first = {}
           THEN /\ dstate' = "panicked"
                /\ UNCHANGED <<next_seconds, time_of_day, skip_days, start_day_of_week>>
           ELSE /\ dstate' = "built"
                /\ time_of_day' = CHOOSE x \in tod : TRUE
                /\ start_day_of_week' = sdow
                /\ skip_days' = skip
                /\ next_seconds' = CHOOSE x \in first : TRUE
    /\ UNCHANGED <<clock, dpc, now_l, next_l, new_l, fired>>
    /\ UNCHANGED cvars
    /\ UNCHANGED svars

\* The system clock moves forward: by a step, or to (one second before) the
\* stored threshold.
Tick ==
    /\ \E c \in {clock + d : d \in TickSteps} \cup {next_seconds - 1, next_seconds} :
        /\ c > clock
        /\ \E s0 \in StartInstants : s0 <= clock /\ c <= s0 + MaxDays * SecsPerDay
        /\ clock' = c
    /\ UNCHANGED <<dstate, next_seconds, time_of_day, skip_days, start_day_of_week,
                   dpc, now_l, next_l, new_l, fired>>
    /\ UNCHANGED cvars
    /\ UNCHANGED svars

\* trigger(): let now = Local::now().timestamp();
TriggerNow(t) ==
    /\ dstate = "built"
    /\ dpc[t] = "idle"
    /\ dpc' = [dpc EXCEPT ![t] = "now"]
    /\ now_l' = [now_l EXCEPT ![t] = clock]
    /\ UNCHANGED <<dstate, next_seconds, time_of_day, skip_days, start_day_of_week,
                   clock, next_l, new_l, fired>>
    /\ UNCHANGED cvars
    /\ UNCHANGED svars

\* (mutant) the comparison is off by one second
NotYetDueOffByOne(now, next) == now < next - 1

\* trigger(): if now < next
NotYetDue(now, next) == now < next

\* trigger(): let next = self.next_seconds.load(SeqCst);
\*            if now < next { return Ok(false); }
TriggerLoad(t) ==
    /\ dpc[t] = "now"
    /\ next_l' = [next_l EXCEPT ![t] = next_seconds]
    /\ dpc' = [dpc EXCEPT ![t] = IF NotYetDue(now_l[t], next_seconds) THEN "notdue" ELSE "due"]
    /\ UNCHANGED <<dstate, next_seconds, time_of_day, skip_days, start_day_of_week,
                   clock, now_l, new_l, fired>>
    /\ UNCHANGED cvars
    /\ UNCHANGED svars

\* trigger(): the caller receives Ok(false)
ReturnFalse(t) ==
    /\ dpc[t] = "notdue"
    /\ dpc' = [dpc EXCEPT ![t] = "idle"]
    /\ now_l' = [now_l EXCEPT ![t] = 0]
    /\ next_l' = [next_l EXCEPT ![t] = 0]
    /\ UNCHANGED <<dstate, next_seconds, time_of_day, skip_days, start_day_of_week,
                   clock, new_l, fired>>
    /\ UNCHANGED cvars
    /\ UNCHANGED svars

\* trigger(): let last = match Local.timestamp_opt(next, 0) { Single(ts) => ts, .. };
\* an instant has exactly one civil date-time, so the other arms are not taken
\* for the instants of this model.
Last(next) == next

\* (mutant) the threshold advances by skip_days days, not by the period
NextAfterSkipOnly(next, skip) == CheckedAddDays(Last(next), skip)

\* trigger(): last.checked_add_days(Days::new(self.skip_days as u64 + 1))
NextAfter(next, skip) == CheckedAddDays(Last(next), skip + 1)

\* trigger(): let next = last.checked_add_days(..).expect(..);
\*            self.next_seconds.store(next.timestamp(), SeqCst);
\* expect() on None panics; the thread unwinds and the cell stays as it was.
TriggerStore(t) ==
    /\ dpc[t] = "due"
    /\ LET next == NextAfter(next_l[t], skip_days) IN
        IF next = {}
        THEN /\ dpc' = [dpc EXCEPT ![t] = "panicked"]
             /\ UNCHANGED <<next_seconds, new_l>>
        ELSE /\ dpc' = [dpc EXCEPT ![t] = "fired"]
             /\ next_seconds' = CHOOSE x \in next : TRUE
             /\ new_l' = [new_l EXCEPT ![t] = CHOOSE x \in next : TRUE]
    /\ UNCHANGED <<dstate, time_of_day, skip_days, start_day_of_week,
                   clock, now_l, next_l, fired>>
    /\ UNCHANGED cvars
    /\ UNCHANGED svars

\* trigger(): Ok(true)
ReturnTrue(t) ==
    /\ dpc[t] = "fired"
    /\ dpc' = [dpc EXCEPT ![t] = "idle"]
    /\ fired' = fired \cup {next_l[t]}
    /\ now_l' = [now_l EXCEPT ![t] = 0]
    /\ next_l' = [next_l EXCEPT ![t] = 0]
    /\ new_l' = [new_l EXCEPT ![t] = 0]
    /\ UNCHANGED <<dstate, next_seconds, time_of_day, skip_days, start_day_of_week,
                   clock>>
    /\ UNCHANGED cvars
    /\ UNCHANGED svars

DailyNext ==
    \/ \E tod \in TimeOfDayInputs, skip \in SkipDaysInputs, sdow \in StartDayInputs :
        New(tod, skip, sdow)
    \/ Tick
    \/ \E t \in Threads :
        \/ TriggerNow(t)
        \/ TriggerLoad(t)
        \/ ReturnFalse(t)
        \/ TriggerStore(t)
        \/ ReturnTrue(t)

\* No DailyTrigger in a ClientTrigger behaviour, and the reverse.
DailyAbsent ==
    /\ dstate = "none"
    /\ next_seconds = 0
    /\ time_of_day = 0
    /\ skip_days = 0
    /\ start_day_of_week = 0
    /\ clock = 0
    /\ dpc = [t \in Threads |-> "idle"]
    /\ now_l = [t \in Threads |-> 0]
    /\ next_l = [t \in Threads |-> 0]
    /\ new_l = [t \in Threads |-> 0]
    /\ fired = {}

\* u32 values beyond the reach of a model integer are held as two 16-bit halves
U16 == 256 * 256
Halves(n) == [hi |-> n \div U16, lo |-> n % U16]
U32Max == [hi |-> U16 - 1, lo |-> U16 - 1]
\* the integer a u32 below 2^31 stands for
IntOf(x) == x.hi * U16 + x.lo

\* DailyTriggerConfig::default(); no call made by the sequential caller
ConfigAbsent ==
    /\ cfg_time_of_day = 0
    /\ cfg_skip_days = Halves(0)
    /\ cfg_start_day_of_week = 0
    /\ ret = "none"
    /\ file = "none"

\* one ClientTrigger, no DailyTrigger
InitClient == ClientInit /\ DailyAbsent /\ ConfigAbsent

\* one DailyTrigger about to be built; the ClientTrigger is left alone
InitDaily == ClientInit /\ DailyInit /\ ConfigAbsent

SpecClient == InitClient /\ [][ClientNext]_vars

SpecDaily == InitDaily /\ [][DailyNext]_vars

(***************************************************************************)
(* Construction from a configuration, and one caller using the triggers    *)
(* sequentially (each call runs to its end before the next starts).        *)
(***************************************************************************)
\* largest time_of_day handed to the deserializer
MaxTimeOfDay == 9999
\* days of clock time after the latest start instant that a sequential
\* behaviour covers
MaxSeqDays == 9

\* u32 `self.skip_days + 1` of first_trigger_point: the wrapped sum, and whether
\* it overflowed (a panic where overflow is checked, the sum 0 where it wraps)
PeriodU32(skip) ==
    LET lo == skip.lo + 1
        hi == skip.hi + (lo \div U16)
    IN  [hi |-> hi % U16, lo |-> lo % U16, overflow |-> hi >= U16]

\* DailyTriggerDeserializer::deserialize(config): DailyTrigger::new(config.*).
\* When skip_days + 1 overflows, first_trigger_point panics: on the overflow
\* check, or else on the remainder by the wrapped period 0.
Deserialize ==
    /\ dstate = "none"
    /\ LET period == PeriodU32(cfg_skip_days) IN
        IF period.overflow
        THEN /\ dstate' = "panicked"
             /\ UNCHANGED <<next_seconds, time_of_day, skip_days, start_day_of_week,
                            clock, dpc, now_l, next_l, new_l, fired>>
             /\ UNCHANGED cvars
             /\ UNCHANGED svars
        ELSE New(cfg_time_of_day, IntOf(cfg_skip_days), cfg_start_day_of_week)

\* LogFile handles the caller may pass
LogFiles == {"empty.log", "full.log"}

\* (mutant) trigger() consults the file and never rotates an empty one
DailyOutcomeByFile(now, next, skip, f) ==
    IF NotYetDue(now, next) \/ f = "empty.log"
    THEN [ret |-> "false", next |-> next]
    ELSE LET n == NextAfter(next, skip) IN
         IF n = {} THEN [ret |-> "panic", next |-> next]
         ELSE [ret |-> "true", next |-> CHOOSE x \in n : TRUE]

\* DailyTrigger::trigger(&self, _: &LogFile) run by a single caller with
\* Local::now() = now and next_seconds = next: what it returns and stores.
DailyOutcome(now, next, skip, f) ==
    IF NotYetDue(now, next)
    THEN [ret |-> "false", next |-> next]
    ELSE LET n == NextAfter(next, skip) IN
         IF n = {} THEN [ret |-> "panic", next |-> next]
         ELSE [ret |-> "true", next |-> CHOOSE x \in n : TRUE]

\* ClientTrigger::trigger(&self, file): the swap; file is not read
ClientOutcome(l, f) == AtomicSwap(l, FALSE)

\* the caller runs DailyTrigger::trigger(file) from entry to return
SeqTrigger(f) ==
    /\ dstate = "built"
    /\ LET o == DailyOutcome(clock, next_seconds, skip_days, f) IN
        /\ ret' = o.ret
        /\ next_seconds' = o.next
    /\ file' = f
    /\ UNCHANGED <<dstate, time_of_day, skip_days, start_day_of_week, clock,
                   dpc, now_l, next_l, new_l, fired>>
    /\ UNCHANGED <<cfg_time_of_day, cfg_skip_days, cfg_start_day_of_week>>
    /\ UNCHANGED cvars

\* the caller runs ClientTrigger::rotate_on_next_append()
SeqArm ==
    /\ latch' = AtomicSwap(latch, TRUE).cell
    /\ UNCHANGED <<cpc, cres, cmark, armDone, hist>>
    /\ UNCHANGED dvars
    /\ UNCHANGED svars

\* the caller runs ClientTrigger::trigger(file) from entry to return
SeqClientTrigger(f) ==
    /\ LET s == ClientOutcome(latch, f) IN
        /\ latch' = s.cell
        /\ cres' = [cres EXCEPT ![1] = s.prev]
    /\ file' = f
    /\ UNCHANGED <<cpc, cmark, armDone, hist>>
    /\ UNCHANGED dvars
    /\ UNCHANGED <<cfg_time_of_day, cfg_skip_days, cfg_start_day_of_week, ret>>

\* instants at which a sequential behaviour starts: 10:00 and 20:00 local on
\* each day of the week Mon 2024-01-01 .. Sun 2024-01-07, the two instants of
\* StartInstants, and Sun 2024-11-03 01:30 local (first pass of the overlap)
SeqStartInstants ==
    {(19723 + d) * SecsPerDay + h * SecsPerHour : d \in 0..6, h \in {15, 25}}
    \cup StartInstants
    \cup {20030 * SecsPerDay + 5 * SecsPerHour + 30 * 60}

SeqTimeOfDayInputs == {0, 230, 1530}
SeqSkipDaysInputs == {0, 1, 6, 7}
SeqStartDayInputs == {0, 3}

\* the clock of a sequential behaviour moves forward (as Tick does)
SeqTick ==
    /\ dstate = "built"
    /\ \E c \in {clock + d : d \in TickSteps} \cup {next_seconds - 1, next_seconds} :
        /\ c > clock
        /\ \E s0 \in SeqStartInstants : s0 <= clock /\ c <= s0 + MaxSeqDays * SecsPerDay
        /\ clock' = c
    /\ UNCHANGED <<dstate, next_seconds, time_of_day, skip_days, start_day_of_week,
                   dpc, now_l, next_l, new_l, fired>>
    /\ UNCHANGED cvars
    /\ UNCHANGED svars

\* A configuration has been read and the process is about to build its
\* trigger from it.
ConfigRead(starts, tods, skips, sdows) ==
    /\ ClientInit
    /\ dstate = "none"
    /\ next_seconds = 0
    /\ time_of_day = 0
    /\ skip_days = 0
    /\ start_day_of_week = 0
    /\ clock \in starts
    /\ dpc = [t \in Threads |-> "idle"]
    /\ now_l = [t \in Threads |-> 0]
    /\ next_l = [t \in Threads |-> 0]
    /\ new_l = [t \in Threads |-> 0]
    /\ fired = {}
    /\ cfg_time_of_day \in tods
    /\ cfg_skip_days \in skips
    /\ cfg_start_day_of_week \in sdows
    /\ ret = "none"
    /\ file = "none"

InitSeq ==
    ConfigRead(SeqStartInstants, SeqTimeOfDayInputs,
               {Halves(n) : n \in SeqSkipDaysInputs}, SeqStartDayInputs)

SeqNext ==
    \/ Deserialize
    \/ SeqTick
    \/ \E f \in LogFiles : SeqTrigger(f)
    \/ SeqArm
    \/ \E f \in LogFiles : SeqClientTrigger(f)

SpecSeq == InitSeq /\ [][SeqNext]_vars

\* Construction alone, over every time_of_day up to MaxTimeOfDay and over
\* skip_days up to the largest u32, at Mon 2024-01-01 10:00 local.
NormStartInstants == {19723 * SecsPerDay + 15 * SecsPerHour}
NormSkipDaysInputs == {Halves(0), Halves(6), U32Max}

InitNorm ==
    \/ ConfigRead(NormStartInstants, 0..MaxTimeOfDay, {Halves(0)}, {0})
    \/ ConfigRead(NormStartInstants, {0}, NormSkipDaysInputs, 0..7)

NormNext == Deserialize

SpecNorm == InitNorm /\ [][NormNext]_vars


(***************************************************************************)
(* ClientTrigger: properties                                               *)
(***************************************************************************)
IsArm(i) == i \in 1..Len(hist) /\ hist[i].op = "arm"
IsEval(i) == i \in 1..Len(hist) /\ hist[i].op = "eval"
IsTrueEval(i) == IsEval(i) /\ hist[i].res

ArmCount == Cardinality({i \in 1..Len(hist) : IsArm(i)})
TrueCount == Cardinality({i \in 1..Len(hist) : IsTrueEval(i)})
\* maximal runs of consecutive arm() effects
ArmRuns == Cardinality({i \in 1..Len(hist) : IsArm(i) /\ ~IsArm(i - 1)})

\* The latch of a sequential ClientTrigger after the calls h[1..n] in that order.
SeqLatch(h, n) == IF n = 0 THEN FALSE ELSE h[n].op = "arm"

\* C1: in the order in which the calls take effect, an evaluate() returns true
\* exactly when an arm() took effect since the previous evaluate() (or since
\* construction): the first evaluate() after an arm() is true, an evaluate()
\* with no arm() before it is false, and the value a thread hands back is the
\* one its swap read.
C1_FirstEvalAfterArm ==
    /\ \A i \in 1..Len(hist) : IsEval(i) => (hist[i].res <=> IsArm(i - 1))
    /\ \A t \in Threads : cpc[t] = "evald" => cres[t] = hist[LastPosOf(hist, t)].res

\* arm, evaluate -> true, evaluate -> false
C1_Witness ==
    \E i \in 1..Len(hist) : IsArm(i) /\ IsTrueEval(i + 1) /\ IsEval(i + 2) /\ ~hist[i + 2].res

\* C2: n >= 1 arm() calls with no evaluate() between them leave the latch as
\* one arm() does (set), and each such run yields exactly one true evaluate():
\* the true evaluations are as many as the runs of arms already consumed.
C2_Coalescing ==
    /\ (Len(hist) > 0 /\ IsArm(Len(hist))) => latch = TRUE
    /\ TrueCount = ArmRuns - (IF IsArm(Len(hist)) THEN 1 ELSE 0)

\* arm, arm, evaluate -> true, evaluate -> false
C2_Witness ==
    \E i \in 1..Len(hist) :
        IsArm(i) /\ IsArm(i + 1) /\ IsTrueEval(i + 2) /\ IsEval(i + 3) /\ ~hist[i + 3].res

\* C3: under every interleaving the calls behave as one total order of atomic
\* steps: the latch and every result are those of a sequential latch run over
\* that order, the true evaluations never outnumber the arms that took
\* effect, and between two true evaluations a distinct arm took effect.
C3_Linearizable ==
    /\ latch = SeqLatch(hist, Len(hist))
    /\ \A i \in 1..Len(hist) : hist[i].res = SeqLatch(hist, i - 1)
    /\ TrueCount <= ArmCount
    /\ \A i, j \in 1..Len(hist) :
        (i < j /\ IsTrueEval(i) /\ IsTrueEval(j)) => \E k \in (i + 1)..(j - 1) : IsArm(k)

\* two threads are inside evaluate() at once after a single arm; one got true
C3_Witness ==
    /\ \A t \in Threads : cpc[t] = "evald"
    /\ ArmCount = 1
    /\ TrueCount = 1

\* C4: if an arm() had returned before an evaluate() E began, then E, or an
\* evaluate() whose swap came after that arm's swap and before E's, returned
\* true: the signal is not lost.
C4_NoLostSignal ==
    \A j \in 1..Len(hist) :
        (IsEval(j) /\ hist[j].mark > 0) =>
            \E k \in (hist[j].mark + 1)..j : IsTrueEval(k)

\* E began after an arm() had returned, read false, and an earlier evaluate()
\* of another thread had consumed that arm
C4_Witness ==
    \E j \in 1..Len(hist) :
        /\ IsEval(j) /\ hist[j].mark > 0 /\ ~hist[j].res
        /\ \E k \in (hist[j].mark + 1)..(j - 1) : IsTrueEval(k) /\ hist[k].th # hist[j].th

(***************************************************************************)
(* DailyTrigger: properties                                                *)
(***************************************************************************)
Period == skip_days + 1

\* The threshold that a trigger() which loaded T stores.
StoredAfter(T) == CHOOSE x \in NextAfter(T, skip_days) : TRUE

\* The largest threshold stored by a trigger() that has returned Ok(true).
LastNew ==
    IF fired = {} THEN 0
    ELSE CHOOSE x \in {StoredAfter(T) : T \in fired} :
            \A y \in {StoredAfter(T) : T \in fired} : y <= x

\* thread t's trigger() hands Ok(true) to its caller in this step
ReturnsTrue(t) == dpc[t] = "fired" /\ dpc'[t] = "idle"

\* C5: no two trigger() calls return Ok(true) after loading the same stored
\* threshold: a call about to return Ok(true) for threshold T is the only one
\* that does, now or earlier.
C5_OneTruePerThreshold ==
    \A t \in Threads :
        dpc[t] = "fired" =>
            /\ next_l[t] \notin fired
            /\ \A u \in Threads \ {t} : ~(dpc[u] = "fired" /\ next_l[u] = next_l[t])

\* C6: with a clock that never goes back, the stored next_seconds never
\* decreases from one state to the next.
C6_Monotone == [][next_seconds' >= next_seconds]_vars

\* C7: a trigger() that finds the threshold due returns Ok(true), and once a
\* trigger() has returned Ok(true) and stored a new threshold, no trigger()
\* whose `now` lies before that new threshold returns Ok(true).
C7_FiresOnce ==
    [][\A t \in Threads :
        /\ dpc[t] = "due" => dpc'[t] \in {"due", "fired"}
        /\ ReturnsTrue(t) => now_l[t] >= LastNew]_vars

\* C8: a trigger() that returns Ok(true) after loading threshold T stores the
\* instant whose local civil date is skip_days + 1 days after T's and whose
\* local time of day is T's; when the UTC offset changes between the two, they
\* are not a whole number of 86400-second days apart.
C8_AdvanceAmount ==
    [][\A t \in Threads :
        (dpc[t] = "due" /\ dpc'[t] = "fired") =>
            LET T == next_l[t]
                N == next_seconds'
            IN  /\ DateOf(ToLocal(N)) = DateOf(ToLocal(T)) + Period
                /\ TimeOf(ToLocal(N)) = TimeOf(ToLocal(T))
                /\ UtcOffset(N) # UtcOffset(T) => (N - T) % SecsPerDay # 0]_vars

\* a threshold was advanced across a daylight-saving transition: the new one
\* is the same wall-clock time one period later and 23 or 25 hours away
C8_Witness ==
    \E t \in Threads :
        /\ dpc[t] = "fired"
        /\ next_seconds = new_l[t]
        /\ UtcOffset(new_l[t]) # UtcOffset(next_l[t])
        /\ TimeOf(ToLocal(new_l[t])) = time_of_day
        /\ (new_l[t] - next_l[t]) % SecsPerDay # 0

\* C9: a trigger() whose `now` is strictly less than the stored threshold it
\* loads returns Ok(false), and neither the load nor the return changes
\* next_seconds or the configuration.
C9_NotYetDue ==
    [][\A t \in Threads :
        /\ (dpc[t] = "now" /\ dpc'[t] # "now" /\ now_l[t] < next_seconds) =>
                (dpc'[t] = "notdue" /\ next_seconds' = next_seconds /\ config' = config)
        /\ (dpc[t] = "notdue" /\ dpc'[t] # "notdue") =>
                (dpc'[t] = "idle" /\ next_seconds' = next_seconds /\ config' = config)]_vars

\* a trigger() is returning Ok(false) one second before the threshold
C9_Witness ==
    \E t \in Threads :
        /\ dpc[t] = "notdue"
        /\ now_l[t] = next_l[t] - 1
        /\ next_seconds = next_l[t]

\* C10: trigger() never panics: when the calendar arithmetic has no valid
\* result the caller gets an error value.
C10_NoPanic == \A t \in Threads : dpc[t] # "panicked"

(***************************************************************************)
(* Construction and sequential use: properties                             *)
(***************************************************************************)
\* hour and minute of a NaiveTime held as seconds since midnight
HourOf(tod) == tod \div SecsPerHour
MinuteOf(tod) == (tod % SecsPerHour) \div 60

\* C11: for every time_of_day (0..9999 in particular), construction succeeds
\* and the trigger's effective time has an hour in 0..23 and a minute in 0..59.
C11_ConstructionTotal ==
    (dstate # "none" /\ cfg_skip_days = Halves(0)) =>
        /\ dstate = "built"
        /\ HourOf(time_of_day) \in 0..23
        /\ MinuteOf(time_of_day) \in 0..59

\* C12: for every time_of_day, the hour new() computes is the hour part mod 24,
\* plus 1 when the minute part is 60..99, and the minute is the minute part
\* mod 60; a trigger that is built has exactly that time of day. So 1530 is
\* 15:30, 2400 is 00:00, 2530 is 01:30 and 1290 is 13:30.
C12_Normalization ==
    LET hp == cfg_time_of_day \div 100
        mp == cfg_time_of_day % 100
        h == (hp % 24) + (IF mp >= 60 THEN 1 ELSE 0)
        m == IF mp >= 60 THEN mp - 60 ELSE mp
    IN  /\ NormHours(cfg_time_of_day) = h
        /\ NormMinutes(cfg_time_of_day) = m
        /\ dstate = "built" =>
            /\ time_of_day = h * SecsPerHour + m * 60
            /\ cfg_time_of_day = 1530 => time_of_day = 15 * SecsPerHour + 30 * 60
            /\ cfg_time_of_day = 2400 => time_of_day = 0
            /\ cfg_time_of_day = 2530 => time_of_day = 1 * SecsPerHour + 30 * 60
            /\ cfg_time_of_day = 1290 => time_of_day = 13 * SecsPerHour + 30 * 60

\* a trigger built from a minute part of 90: hour + 1, minute 30
C12_Witness ==
    /\ dstate = "built"
    /\ cfg_time_of_day = 1290
    /\ HourOf(time_of_day) = 13
    /\ MinuteOf(time_of_day) = 30

\* the step in which DailyTrigger::new returns a trigger
Constructed == dstate = "none" /\ dstate' = "built"

\* the weekday offset of local date-time l from the anchor day, 0..6
WeekdayOffset(l, sdow) == (NumDaysFromSunday(l) + 7 - sdow) % 7

\* C13: the threshold that construction stores is today's date at the
\* configured time when today is a cycle day and the local time is before the
\* configured time, and otherwise the date (period - days_into_cycle) days
\* after today at the configured time, seconds 0.
C13_FirstTriggerPoint ==
    [][Constructed =>
        LET today == ToLocal(clock)
            period == skip_days' + 1
            days_into_cycle == WeekdayOffset(today, start_day_of_week') % period
            ahead == IF days_into_cycle = 0 /\ TimeOf(today) < time_of_day'
                     THEN 0
                     ELSE period - days_into_cycle
        IN  ToLocal(next_seconds') = (DateOf(today) + ahead) * SecsPerDay + time_of_day']_vars

\* (0000, 0, 0) constructed at 2024-01-01T10:00 has threshold 2024-01-02T00:00
C13_Witness ==
    /\ dstate = "built"
    /\ cfg_time_of_day = 0 /\ cfg_skip_days = Halves(0) /\ cfg_start_day_of_week = 0
    /\ ToLocal(clock) = 19723 * SecsPerDay + 10 * SecsPerHour
    /\ ToLocal(next_seconds) = 19724 * SecsPerDay

\* C14: whenever a trigger exists, its stored threshold has the configured
\* time of day in local civil time and falls on a valid cycle day: the weekday
\* offset of its date from start_day_of_week, modulo skip_days + 1, is 0.
C14_ScheduleInvariant ==
    dstate = "built" =>
        LET l == ToLocal(next_seconds) IN
        /\ TimeOf(l) = time_of_day
        /\ WeekdayOffset(l, start_day_of_week) % (skip_days + 1) = 0

\* C15: with start_day_of_week = 3 and skip_days = 6, every threshold the
\* trigger stores, the first one and each one after an advance, falls on a
\* Wednesday, and each advance moves the threshold by exactly 7 calendar days.
C15_WeeklyCycle ==
    [][(cfg_start_day_of_week = 3 /\ cfg_skip_days = Halves(6) /\ dstate' = "built") =>
        /\ NumDaysFromSunday(ToLocal(next_seconds')) = 3
        /\ (dstate = "built" /\ next_seconds' # next_seconds) =>
            /\ ret' = "true"
            /\ DateOf(ToLocal(next_seconds')) = DateOf(ToLocal(next_seconds)) + 7]_vars

\* a weekly trigger that has rotated once: the call returned true at or after
\* the first Wednesday and the threshold is the Wednesday after
C15_Witness ==
    /\ dstate = "built"
    /\ start_day_of_week = 3 /\ skip_days = 6
    /\ ret = "true"
    /\ NumDaysFromSunday(ToLocal(clock)) = 3
    /\ NumDaysFromSunday(ToLocal(next_seconds)) = 3
    /\ DateOf(ToLocal(next_seconds)) = DateOf(ToLocal(clock)) + 7

\* C16: with skip_days = 7 and start_day_of_week = 3 the trigger rotates weekly
\* on Wednesday: every stored threshold falls on a Wednesday and each advance
\* moves the threshold by one week.
C16_DocWeekly ==
    [][(cfg_start_day_of_week = 3 /\ cfg_skip_days = Halves(7) /\ dstate' = "built") =>
        /\ NumDaysFromSunday(ToLocal(next_seconds')) = 3
        /\ (dstate = "built" /\ next_seconds' # next_seconds) =>
            DateOf(ToLocal(next_seconds')) = DateOf(ToLocal(next_seconds)) + 7]_vars

\* C17: for both triggers, what an evaluation returns and the state it leaves
\* are determined by the trigger's state (and the clock) alone: a call made
\* with one LogFile returns and stores exactly what the same call made with
\* any other LogFile would.
C17_LogFileIndependence ==
    [][\A f, g \in LogFiles :
        /\ SeqTrigger(f) =>
            /\ ret' = DailyOutcome(clock, next_seconds, skip_days, g).ret
            /\ next_seconds' = DailyOutcome(clock, next_seconds, skip_days, g).next
        /\ SeqClientTrigger(f) =>
            /\ cres'[1] = ClientOutcome(latch, g).prev
            /\ latch' = ClientOutcome(latch, g).cell]_vars

\* both triggers have been evaluated with a LogFile and have returned true
C17_Witness ==
    /\ dstate = "built"
    /\ file \in LogFiles
    /\ ret = "true"
    /\ cres[1] = TRUE

\* C18: the threshold that construction stores is strictly later than the
\* construction instant, so an evaluation at the construction instant returns
\* false and leaves the threshold as it is.
C18_FirstThresholdInFuture ==
    [][Constructed =>
        /\ next_seconds' > clock
        /\ \A f \in LogFiles :
            DailyOutcome(clock, next_seconds', skip_days', f) =
                [ret |-> "false", next |-> next_seconds']]_vars

\* a trigger built on Monday 2024-01-01T10:00 for 15:30 every day has its
\* threshold later the same day, and was evaluated at 10:00: false
C18_Witness ==
    /\ dstate = "built"
    /\ ToLocal(clock) = 19723 * SecsPerDay + 10 * SecsPerHour
    /\ ToLocal(next_seconds) = 19723 * SecsPerDay + 15 * SecsPerHour + 30 * 60
    /\ file \in LogFiles
    /\ ret = "false"

\* C19: catch-up makes progress until it ends: every evaluation made when the
\* threshold has been reached returns true and moves the threshold forward by
\* the period, so with the clock held fixed only finitely many evaluations
\* return true before the threshold exceeds the clock.
C19_CatchUpProgress ==
    [][\A f \in LogFiles :
        (SeqTrigger(f) /\ ~NotYetDue(clock, next_seconds)) =>
            /\ ret' = "true"
            /\ next_seconds' > next_seconds
            /\ DateOf(ToLocal(next_seconds')) = DateOf(ToLocal(next_seconds)) + skip_days + 1]_vars

\* C20: for every unsigned 32-bit skip_days, 2^32 - 1 included, the period
\* that construction computes is the mathematical skip_days + 1: it does not
\* wrap, it is at least 1, and the trigger is built with it.
C20_PeriodExact ==
    (dstate # "none" /\ cfg_time_of_day = 0) =>
        LET period == PeriodU32(cfg_skip_days) IN
        /\ ~period.overflow
        /\ IntOf(period) >= 1
        /\ dstate = "built"
        /\ skip_days + 1 = IntOf(period)

====
